---- MODULE Spec2Model ----
(***************************************************************************)
(* Rule evaluation and row transformation engine of the expense            *)
(* categorizer (src/categorize.py).                                        *)
(*                                                                         *)
(* Representation.                                                         *)
(*   - A Python str is a finite sequence of symbols.  A symbol stands for  *)
(*     a whitespace-free token; re.match and str.format work on these      *)
(*     sequences as they work on characters (prefix match, concatenation). *)
(*   - A cell or property value is a record [t, s, n]: t is the Python     *)
(*     type ("str", "nan" for the missing float, "int", "none"), s the     *)
(*     text of a str, n the number of an int.                              *)
(*   - A pandas Series (row) and a dict (property bag) are functions from  *)
(*     names to values; a DataFrame is the sequence of its rows.           *)
(*   - A Python call that can raise returns a record with a field exc      *)
(*     ("none" or the exception class).                                    *)
(***************************************************************************)
EXTENDS Integers, Sequences, FiniteSets, TLC

\* ------------------------------------------------------------------ values

VStr(s) == [t |-> "str", s |-> s, n |-> 0]
VNaN == [t |-> "nan", s |-> <<>>, n |-> 0]
VInt(i) == [t |-> "int", s |-> <<>>, n |-> i]
VNone == [t |-> "none", s |-> <<>>, n |-> 0]

\* str(value), as str.format renders a property
py_str(v) ==
    CASE v.t = "str" -> v.s
      [] v.t = "nan" -> <<"nan">>
      [] v.t = "int" -> <<ToString(v.n)>>
      [] OTHER -> <<"None">>

Range(f) == {f[i] : i \in DOMAIN f}

\* {**x, **y}
dict_merge(x, y) ==
    [k \in (DOMAIN x) \cup (DOMAIN y) |-> IF k \in DOMAIN y THEN y[k] ELSE x[k]]

EmptyDict == [k \in {} |-> VNone]

COMMENT == "Jegyzet"
CATEGORY == "Kategoria"
ERSTE_COMMENT == "erste_comment"

\* --------------------------------------------------------- row multiplexer

\* rnd(8): the random column name of one lift.  Two nested lifts draw two
\* names; a draw equal to a column of the table or to the other draw has
\* probability below 52^-8 and is left out.
rnd_outer == "rnd_row_apply_rule"
rnd_inner == "rnd_action_update"

\* df[row_name] = range(1, len(df.index)+1)
add_marker(df, row_name) ==
    [i \in 1..Len(df) |->
        [c \in (DOMAIN df[i]) \cup {row_name} |->
            IF c = row_name THEN VInt(i) ELSE df[i][c]]]

RECURSIVE select_rows(_, _, _)
select_rows(df, row_name, key) ==
    IF df = <<>> THEN <<>>
    ELSE (IF df[1][row_name].n = key THEN <<df[1]>> ELSE <<>>)
         \o select_rows(Tail(df), row_name, key)

\* df.groupby(row_name): the frame of the group of one key
get_group(df, row_name, key) == select_rows(df, row_name, key)

RECURSIVE concat_reversed(_)
\* concat with the frames assembled last group first
concat_reversed(frames) ==
    IF frames = <<>> THEN <<>> ELSE concat_reversed(Tail(frames)) \o frames[1]

RECURSIVE concat(_)
\* pd.concat of the frames the applied function returned, in group order
concat(frames) ==
    IF frames = <<>> THEN <<>> ELSE frames[1] \o concat(Tail(frames))

\* df.drop(row_name, axis=1)
drop_marker(df, row_name) ==
    [i \in 1..Len(df) |-> [c \in (DOMAIN df[i]) \ {row_name} |-> df[i][c]]]

\* ------------------------------------------------------------- extractors

get_default_params(row) == [exc |-> "none", bag |-> row]

\* Symbols with a digit, [0-9]{6}[0-9]{2}:[0-9]{2} stamps, and the stamps
\* strptime('%y%m%d%H:%M') accepts.
DigitSymbols == {"123", "20010112:30", "20139912:30"}
StampSymbols == {"20010112:30", "20139912:30"}
ValidStamps == {"20010112:30"}
VASAR == "vasar."

stamp_date(sym) == IF sym = "20010112:30" THEN "200101" ELSE "201399"
stamp_time(sym) == "12:30"
\* strptime(date+time, '%y%m%d%H:%M').strftime("%Y-%m-%d %H:%M")
stamp_canonical(sym) == IF sym = "20010112:30" THEN <<"2020-01-01", "12:30">> ELSE <<>>

\* comment_re.match on a token sequence: card, optional id (a token with a
\* digit), place (one token or more, greedy), the stamp, then "vasar."
\* somewhere behind it, then an optional exchange of three tokens.
\* The stamp positions the pattern can take with the place starting at `from`.
stamp_positions(c, from) ==
    {j \in (from + 1)..Len(c) :
        /\ c[j] \in StampSymbols
        /\ \E k \in (j + 1)..Len(c) : c[k] = VASAR}

set_max(S) == CHOOSE m \in S : \A x \in S : x <= m

\* The groups of the match that takes the id (tok = 2) or leaves it out.
re_groups(c, from, positions) ==
    IF positions = {} THEN [matched |-> FALSE, id |-> VNone, from |-> 0, j |-> 0]
    ELSE [matched |-> TRUE,
          id |-> IF from = 3 THEN VStr(<<c[2]>>) ELSE VNone,
          from |-> from,
          j |-> set_max(positions)]

\* The optional id group is tried first.
comment_re_match(c) ==
    IF Len(c) >= 2 /\ c[2] \in DigitSymbols /\ stamp_positions(c, 3) # {}
    THEN re_groups(c, 3, stamp_positions(c, 3))
    ELSE re_groups(c, 2, stamp_positions(c, 2))

\* The groups behind the stamp: the optional text before "vasar." is greedy,
\* so the last "vasar." is taken, and the exchange is the three tokens
\* behind it when there are three.
exchange_at(c, k) ==
    IF Len(c) >= k + 3
    THEN [exchange |-> VStr(SubSeq(c, k + 1, k + 3)), amount |-> VStr(<<c[k + 1]>>),
          currency |-> VStr(<<c[k + 2]>>), rate |-> VStr(<<c[k + 3]>>)]
    ELSE [exchange |-> VNone, amount |-> VNone, currency |-> VNone, rate |-> VNone]

exchange_groups(c, j) ==
    exchange_at(c, set_max({i \in (j + 1)..Len(c) : c[i] = VASAR}))

\* match.groupdict() and the comment_date derived from it
erste_params(c, m) ==
    IF ~m.matched THEN [exc |-> "ValueError", bag |-> EmptyDict]
    ELSE IF c[m.j] \notin ValidStamps
    THEN [exc |-> "ValueError", bag |-> EmptyDict]
    ELSE [exc |-> "none",
          bag |-> dict_merge(
                   [card |-> VStr(<<c[1]>>),
                    id |-> m.id,
                    place |-> VStr(SubSeq(c, m.from, m.j - 1)),
                    date |-> VStr(<<stamp_date(c[m.j])>>),
                    time |-> VStr(<<stamp_time(c[m.j])>>),
                    comment_date |-> VStr(stamp_canonical(c[m.j]))],
                   exchange_groups(c, m.j))]

get_erste_comment_params(row) ==
    IF COMMENT \notin DOMAIN row THEN [exc |-> "KeyError", bag |-> EmptyDict]
    ELSE IF row[COMMENT].t = "nan" THEN [exc |-> "none", bag |-> EmptyDict]
    ELSE IF row[COMMENT].t # "str" THEN [exc |-> "TypeError", bag |-> EmptyDict]
    ELSE erste_params(row[COMMENT].s, comment_re_match(row[COMMENT].s))

PARAM_NAMES == {"default", ERSTE_COMMENT}

\* param_map[name](row); an unregistered name is a KeyError
param_map(name, row) ==
    CASE name = "default" -> get_default_params(row)
      [] name = ERSTE_COMMENT -> get_erste_comment_params(row)
      [] OTHER -> [exc |-> "KeyError", bag |-> EmptyDict]

RECURSIVE reduce_properties(_, _, _)
\* One step of the reduce: r is what the extractor returned or raised.
merge_properties(r, properties, row, acc) ==
    IF r.exc # "none" THEN [exc |-> r.exc, bag |-> EmptyDict]
    ELSE reduce_properties(Tail(properties), row, dict_merge(acc, r.bag))

\* reduce(lambda x, y: {**x, **y}, map(prop_func, properties), {}): map is
\* lazy, so each extractor runs inside the reduce and its exception leaves
\* build_properties as raised (the except clause around map() sees none).
reduce_properties(properties, row, acc) ==
    IF properties = <<>> THEN [exc |-> "none", bag |-> acc]
    ELSE merge_properties(param_map(properties[1], row), properties, row, acc)

build_properties(properties, row) ==
    reduce_properties(IF "default" \in Range(properties)
                      THEN properties ELSE <<"default">> \o properties,
                      row, EmptyDict)

\* ---------------------------------------------------------------- matcher

\* A pattern is a literal text, anchored at the end (lit$) when full.
Pat(lit, full) == [lit |-> lit, full |-> full]

\* re.match(v, text): the pattern matches a prefix of the text
re_match(v, text) ==
    /\ Len(text) >= Len(v.lit)
    /\ SubSeq(text, 1, Len(v.lit)) = v.lit
    /\ (v.full => Len(text) = Len(v.lit))

\* match_pair with the KeyError of a missing property taken for a match
match_pair_absent_true(params, k, v) ==
    IF k \notin DOMAIN params THEN [exc |-> "none", val |-> TRUE]
    ELSE IF params[k].t # "str" THEN [exc |-> "TypeError", val |-> FALSE]
    ELSE [exc |-> "none", val |-> re_match(v, params[k].s)]

\* re.match(v, params[k]) inside try ... except KeyError
match_pair(params, k, v) ==
    IF k \notin DOMAIN params THEN [exc |-> "none", val |-> FALSE]
    ELSE IF params[k].t # "str" THEN [exc |-> "TypeError", val |-> FALSE]
    ELSE [exc |-> "none", val |-> re_match(v, params[k].s)]

\* A matcher is the sequence of the k:v pairs of one condition dict.
check_matching(params, matcher) ==
    IF Len(matcher) # 1 THEN [exc |-> "ValueError", val |-> FALSE]
    ELSE match_pair(params, matcher[1].k, matcher[1].v)

RECURSIVE check_rule(_, _)
\* One step of all(): r is what check_matching returned or raised.
all_step(r, matchers, properties) ==
    IF r.exc # "none" THEN r
    ELSE IF ~r.val THEN [exc |-> "none", val |-> FALSE]
    ELSE check_rule(Tail(matchers), properties)

\* all(map(check_matcher, matchers)): stops at the first falsy result
check_rule(matchers, properties) ==
    IF matchers = <<>> THEN [exc |-> "none", val |-> TRUE]
    ELSE all_step(check_matching(properties, matchers[1]), matchers, properties)

\* ---------------------------------------------------------------- actions

\* A template is a sequence of parts: literal text or a {key} placeholder.
Lit(text) == [ref |-> FALSE, key |-> "", lit |-> text]
Ref(key) == [ref |-> TRUE, key |-> key, lit |-> <<>>]

\* the text of one part behind the rendered rest
format_part(part, properties, rest) ==
    IF rest.exc # "none" THEN rest
    ELSE [exc |-> "none",
          text |-> (IF part.ref THEN py_str(properties[part.key]) ELSE part.lit)
                   \o rest.text]

RECURSIVE str_format(_, _)
\* row_content.format(**properties)
str_format(template, properties) ==
    IF template = <<>> THEN [exc |-> "none", text |-> <<>>]
    ELSE IF template[1].ref /\ template[1].key \notin DOMAIN properties
    THEN [exc |-> "KeyError", text |-> <<>>]
    ELSE format_part(template[1], properties,
                     str_format(Tail(template), properties))

RECURSIVE update_columns(_, _, _)
\* row[row_name] = <the rendered text f>
set_column(row, items, properties, f) ==
    IF f.exc # "none" THEN [exc |-> f.exc, row |-> row]
    ELSE update_columns([row EXCEPT ![items[1].k] = VStr(f.text)], Tail(items),
                        properties)

\* update_columns without the test `row_name not in row`
update_columns_adds(row, items, properties) ==
    IF items = <<>> THEN [exc |-> "none", row |-> row]
    ELSE set_column(dict_merge([c \in {items[1].k} |-> VNone], row), items,
                    properties, str_format(items[1].v, properties))

\* for row_name, row_content in action.items(): ...
update_columns(row, items, properties) ==
    IF items = <<>> THEN [exc |-> "none", row |-> row]
    ELSE IF items[1].k \notin DOMAIN row
    THEN update_columns(row, Tail(items), properties)
    ELSE set_column(row, items, properties, str_format(items[1].v, properties))

\* new_df = pd.DataFrame([row,])
new_df(r) ==
    IF r.exc # "none" THEN [exc |-> r.exc, df |-> <<>>]
    ELSE [exc |-> "none", df |-> <<r.row>>]

\* The undecorated action_update on the frame of one group.
action_update_group(group, action, properties) ==
    IF Len(group) # 1 THEN [exc |-> "AssertionError", df |-> <<>>]
    ELSE new_df(update_columns(group[1], action, properties))

RECURSIVE apply_action_update(_, _, _, _, _)
\* r is what action_update returned or raised on the group `key`
apply_next(r, df, key, frames, action, properties) ==
    IF r.exc # "none" THEN [exc |-> r.exc, frames |-> frames]
    ELSE apply_action_update(df, key + 1, Append(frames, r.df), action,
                             properties)

\* groups.apply(action_update, action, properties): the groups in key order
apply_action_update(df, key, frames, action, properties) ==
    IF key > Len(df) THEN [exc |-> "none", frames |-> frames]
    ELSE apply_next(action_update_group(get_group(df, rnd_inner, key), action,
                                        properties),
                    df, key, frames, action, properties)

\* the end of wrap_extend: the marker is dropped from the result
lifted_result(r, row_name) ==
    IF r.exc # "none" THEN [exc |-> r.exc, df |-> <<>>]
    ELSE [exc |-> "none", df |-> drop_marker(concat(r.frames), row_name)]

\* action_update as decorated by @extendable
action_update(df, action, properties) ==
    lifted_result(apply_action_update(add_marker(df, rnd_inner), 1, <<>>,
                                      action, properties),
                  rnd_inner)

\* ACTIONS (the name is a reserved word here): the registered action types
ACTION_TYPES == {"update"}

\* action_route: an unregistered type is turned into ValueError
action_route(action_type) ==
    IF action_type \in ACTION_TYPES THEN [exc |-> "none", fn |-> action_type]
    ELSE [exc |-> "ValueError", fn |-> ""]

RECURSIVE reduce_actions(_, _, _, _)
\* r is what the routed action returned or raised on `group`
reduce_next(r, items, group, properties, n) ==
    IF r.exc # "none" THEN [exc |-> r.exc, df |-> group, n |-> n]
    ELSE reduce_actions(Tail(items), r.df, properties, n + 1)

\* reduce(reducer, actions.items(), group); n counts the actions applied;
\* df is the frame the reduce had reached when it ended
reduce_actions(items, group, properties, n) ==
    IF items = <<>> THEN [exc |-> "none", df |-> group, n |-> n]
    ELSE IF action_route(items[1].k).exc # "none"
    THEN [exc |-> action_route(items[1].k).exc, df |-> group, n |-> n]
    ELSE reduce_next(action_update(group, items[1].v, properties), items, group,
                     properties, n)

\* ----------------------------------------------------------- row pipeline

\* A result of row_apply_rule: `exc` is the exception that leaves it, `df`
\* the frame it returns, `step` where it ended, `applied` the number of
\* actions that ran to their end.
Returns(df, step, applied) ==
    [exc |-> "none", df |-> df, step |-> step, applied |-> applied]
Raises(e, step, applied) ==
    [exc |-> e, df |-> <<>>, step |-> step, applied |-> applied]

\* after_actions returning the frame the failed reduce had reached
after_actions_keeps_partial(chain, original_group) ==
    IF chain.exc = "ValueError" THEN Returns(chain.df, "actions", chain.n)
    ELSE IF chain.exc # "none" THEN Raises(chain.exc, "actions", chain.n)
    ELSE Returns(chain.df, "transformed", chain.n)

\* lines 170-181: chain is what the reduce over the actions came to
after_actions(chain, original_group) ==
    IF chain.exc = "ValueError"
    THEN Returns(original_group, "actions", chain.n)
    ELSE IF chain.exc # "none" THEN Raises(chain.exc, "actions", chain.n)
    ELSE Returns(chain.df, "transformed", chain.n)

\* after_match without the test `if not matched`
after_match_unconditional(matched, group, original_group, rule, properties) ==
    IF matched.exc # "none" THEN Raises(matched.exc, "match", 0)
    ELSE after_actions(reduce_actions(rule.actions, group, properties, 0),
                       original_group)

\* lines 163-168: matched is what check_rule returned or raised
after_match(matched, group, original_group, rule, properties) ==
    IF matched.exc # "none" THEN Raises(matched.exc, "match", 0)
    ELSE IF ~matched.val THEN Returns(original_group, "unmatched", 0)
    ELSE after_actions(reduce_actions(rule.actions, group, properties, 0),
                       original_group)

\* lines 156-163: built is what build_properties returned or raised
after_properties(built, group, original_group, rule) ==
    IF built.exc = "ValueError" THEN Returns(original_group, "properties", 0)
    ELSE IF built.exc # "none" THEN Raises(built.exc, "properties", 0)
    ELSE after_match(check_rule(rule.matchers, built.bag), group,
                     original_group, rule, built.bag)

\* The undecorated row_apply_rule on the frame of one group.
row_apply_rule_group(group, rule) ==
    IF Len(group) # 1 THEN Raises("AssertionError", "assert", 0)
    ELSE after_properties(build_properties(rule.properties, group[1]), group,
                          group, rule)

\* ------------------------------------------------------------------ inputs

MaxRows == 2
MaxRules == 2
MaxConds == 2
MaxParams == 2

GoodComment == VStr(<<"CARD", "123", "SHOP", "20010112:30", "vasar.">>)
BadComment == VStr(<<"hello">>)

Row(j, k) == [c \in {COMMENT, CATEGORY} |-> IF c = COMMENT THEN j ELSE k]

\* The rows of the ledger: the header is fixed by the csv file.
Rows == {Row(GoodComment, VStr(<<"x">>)), Row(GoodComment, VStr(<<"y">>)),
         Row(BadComment, VStr(<<"x">>)), Row(VNaN, VStr(<<"x">>))}

SeqsUpTo(S, n) == UNION {[1..m -> S] : m \in 0..n}

Tables == SeqsUpTo(Rows, MaxRows) \ {<<>>}

Pair(k, v) == [k |-> k, v |-> v]

\* conditions: one k:v pair each, but the last two
CondKatX == <<Pair(CATEGORY, Pat(<<"x">>, FALSE))>>
CondKatY == <<Pair(CATEGORY, Pat(<<"y">>, TRUE))>>
CondPlace == <<Pair("place", Pat(<<"SHOP">>, FALSE))>>
CondNoKey == <<Pair("nokey", Pat(<<>>, FALSE))>>
CondComment == <<Pair(COMMENT, Pat(<<"CARD">>, FALSE))>>
CondNoPair == <<>>
CondTwoPairs == CondKatX \o CondPlace

WellFormed(matcher) == Len(matcher) = 1

\* templates
TplY == <<Lit(<<"y">>)>>
TplPlace == <<Ref("place")>>
TplNoKey == <<Lit(<<"y">>), Ref("nokey")>>
TplAppend == <<Ref(CATEGORY), Lit(<<"z">>)>>

Update(params) == Pair("update", params)

Rule(name, hasActive, active, properties, matchers, actions) ==
    [name |-> name, hasActive |-> hasActive, active |-> active,
     properties |-> properties, matchers |-> matchers, actions |-> actions]

Rules ==
    { Rule("plain", FALSE, FALSE, <<>>, <<CondKatX>>,
           <<Update(<<Pair(CATEGORY, TplY)>>)>>),
      Rule("follow", TRUE, TRUE, <<>>, <<CondKatY>>,
           <<Update(<<Pair(CATEGORY, TplAppend)>>)>>),
      Rule("inactive", TRUE, FALSE, <<>>, <<CondTwoPairs>>,
           <<Update(<<Pair(CATEGORY, TplY)>>)>>),
      Rule("unknown_extractor", FALSE, FALSE, <<"nosuch">>, <<>>,
           <<Update(<<Pair(CATEGORY, TplY)>>)>>),
      Rule("erste", FALSE, FALSE, <<ERSTE_COMMENT>>, <<CondPlace>>,
           <<Update(<<Pair(CATEGORY, TplPlace)>>)>>),
      Rule("two_columns", FALSE, FALSE, <<>>, <<CondKatX>>,
           <<Update(<<Pair(CATEGORY, TplY), Pair(COMMENT, TplNoKey)>>)>>),
      Rule("chain", FALSE, FALSE, <<>>, <<CondKatX>>,
           <<Update(<<Pair(CATEGORY, TplY)>>), Pair("split", <<>>)>>),
      Rule("malformed_late", FALSE, FALSE, <<>>, <<CondKatY, CondNoPair>>,
           <<Update(<<Pair(CATEGORY, TplY)>>)>>) }

\* The yaml documents: without the root key, or with a list of rules.
Docs == {[hasRoot |-> FALSE, rules |-> <<>>]}
        \cup {[hasRoot |-> TRUE, rules |-> l] : l \in SeqsUpTo(Rules, MaxRules)}

\* ------------------------------------------------------------------- state

VARIABLES
    csv,        \* the table pd.read_csv returned
    doc,        \* the document yaml.load returned
    pc,         \* "load", "apply", "groups", "done", "aborted", "call", "returned"
    rules,      \* active_rules
    table,      \* the DataFrame the reduce of rule_applier holds
    ri,         \* the index in rules of the rule being applied
    pos,        \* the groups of the running lift already applied
    out,        \* the frames they returned
    exc,        \* the exception that ended the run
    hist,       \* history: the csv table, then the table each rule produced
    last,       \* history: <<the last call of row_apply_rule on a group>>
    evals,      \* history: <<rule index, group key>> of every such call
    call,       \* the arguments of a single call of a function
    ret         \* <<what that call returned>>

vars == <<csv, doc, pc, rules, table, ri, pos, out, exc, hist, last, evals,
          call, ret>>

NoCall ==
    [fn |-> "none", df |-> <<>>, action |-> <<>>, matchers |-> <<>>,
     properties |-> EmptyDict]

Init ==
    /\ csv \in Tables
    /\ doc \in Docs
    /\ pc = "load"
    /\ rules = <<>>
    /\ table = csv
    /\ ri = 1
    /\ pos = 0
    /\ out = <<>>
    /\ exc = "none"
    /\ hist = <<csv>>
    /\ last = <<>>
    /\ evals = <<>>
    /\ call = NoCall
    /\ ret = <<>>

\* the filter of load_rules letting every rule through
is_active_ignores_flag(r) == TRUE

\* lambda r: ('active' not in r) or r['active']
is_active(r) == (~r.hasActive) \/ r.active

\* load_rules, after yaml.load
LoadRules ==
    /\ pc = "load"
    /\ doc.hasRoot
    /\ rules' = SelectSeq(doc.rules, is_active)
    /\ pc' = "apply"
    /\ UNCHANGED <<csv, doc, table, ri, pos, out, exc, hist, last, evals,
                   call, ret>>

\* load_rules: no 'rules' root element
LoadRulesFails ==
    /\ pc = "load"
    /\ ~doc.hasRoot
    /\ pc' = "aborted"
    /\ exc' = "ValueError"
    /\ UNCHANGED <<csv, doc, rules, table, ri, pos, out, hist, last, evals,
                   call, ret>>

\* RuleStart handing every rule the table read from the file
RuleStart_from_csv ==
    /\ pc = "apply"
    /\ ri <= Len(rules)
    /\ table' = add_marker(csv, rnd_outer)
    /\ pos' = 0
    /\ out' = <<>>
    /\ pc' = "groups"
    /\ UNCHANGED <<csv, doc, rules, ri, exc, hist, last, evals, call, ret>>

\* rule_applier's reducer calls row_apply_rule(_table, _rule): wrap_extend
\* writes the marker column into the frame it was given.
RuleStart ==
    /\ pc = "apply"
    /\ ri <= Len(rules)
    /\ table' = add_marker(table, rnd_outer)
    /\ pos' = 0
    /\ out' = <<>>
    /\ pc' = "groups"
    /\ UNCHANGED <<csv, doc, rules, ri, exc, hist, last, evals, call, ret>>

\* One call of row_apply_rule by groups.apply, as the history keeps it.
Evaluation(group, rule) ==
    [group |-> group, rule |-> rule, res |-> row_apply_rule_group(group, rule)]

\* groups.apply calls row_apply_rule on the next group, which returns
GroupReturns ==
    /\ pc = "groups"
    /\ pos < Len(table)
    /\ last' = <<Evaluation(get_group(table, rnd_outer, pos + 1), rules[ri])>>
    /\ last'[1].res.exc = "none"
    /\ out' = Append(out, last'[1].res.df)
    /\ pos' = pos + 1
    /\ evals' = Append(evals, <<ri, pos + 1>>)
    /\ UNCHANGED <<csv, doc, pc, rules, table, ri, exc, hist, call, ret>>

\* ... or raises: the exception leaves apply, wrap_extend (whose finally
\* drops the marker), both reduces and categorizer
GroupRaises ==
    /\ pc = "groups"
    /\ pos < Len(table)
    /\ last' = <<Evaluation(get_group(table, rnd_outer, pos + 1), rules[ri])>>
    /\ last'[1].res.exc # "none"
    /\ exc' = last'[1].res.exc
    /\ pc' = "aborted"
    /\ table' = drop_marker(table, rnd_outer)
    /\ evals' = Append(evals, <<ri, pos + 1>>)
    /\ UNCHANGED <<csv, doc, rules, ri, pos, out, hist, call, ret>>

\* apply has run over every group: the frames are concatenated, the marker
\* is dropped from the result, and the reduce goes to the next rule
Collect ==
    /\ pc = "groups"
    /\ pos = Len(table)
    /\ table' = drop_marker(concat(out), rnd_outer)
    /\ hist' = Append(hist, table')
    /\ ri' = ri + 1
    /\ out' = <<>>
    /\ pc' = "apply"
    /\ UNCHANGED <<csv, doc, rules, pos, exc, last, evals, call, ret>>

\* the reduce is through: categorizer prints the table
Finish ==
    /\ pc = "apply"
    /\ ri > Len(rules)
    /\ pc' = "done"
    /\ UNCHANGED <<csv, doc, rules, table, ri, pos, out, exc, hist, last,
                   evals, call, ret>>

Next ==
    \/ LoadRules
    \/ LoadRulesFails
    \/ RuleStart
    \/ GroupReturns
    \/ GroupRaises
    \/ Collect
    \/ Finish

Spec == Init /\ [][Next]_vars

\* ------------------------------------------- single calls of the functions

Conds == {CondKatX, CondKatY, CondPlace, CondNoKey, CondComment, CondTwoPairs}

\* The bags build_properties makes of a row of a group.
RowBags(row) ==
    {build_properties(p, row).bag :
        p \in {q \in {<<>>, <<ERSTE_COMMENT>>} :
                  build_properties(q, row).exc = "none"}}

Bags == UNION {RowBags(add_marker(<<r>>, rnd_outer)[1]) : r \in Rows}

CheckRuleCalls ==
    {[fn |-> "check_rule", df |-> <<>>, action |-> <<>>, matchers |-> m,
      properties |-> b] : m \in SeqsUpTo(Conds, MaxConds), b \in Bags}

Items == {Pair(c, t) : c \in {CATEGORY, COMMENT, "Nocol"},
                       t \in {TplY, TplPlace, TplNoKey}}

\* the parameters of an update: a dict, so no column twice
ParamMaps ==
    {a \in SeqsUpTo(Items, MaxParams) :
        \A i, j \in DOMAIN a : i # j => a[i].k # a[j].k}

UpdateCalls ==
    {[fn |-> "action_update", df |-> t, action |-> a, matchers |-> <<>>,
      properties |-> b] : t \in {add_marker(u, rnd_outer) : u \in Tables},
                          a \in ParamMaps,
                          b \in Bags}

CallInit ==
    /\ call \in CheckRuleCalls \cup UpdateCalls
    /\ pc = "call"
    /\ ret = <<>>
    /\ csv = <<>>
    /\ doc = [hasRoot |-> FALSE, rules |-> <<>>]
    /\ rules = <<>>
    /\ table = <<>>
    /\ ri = 1
    /\ pos = 0
    /\ out = <<>>
    /\ exc = "none"
    /\ hist = <<>>
    /\ last = <<>>
    /\ evals = <<>>

CallCheckRule ==
    /\ pc = "call"
    /\ call.fn = "check_rule"
    /\ ret' = <<check_rule(call.matchers, call.properties)>>
    /\ pc' = "returned"
    /\ UNCHANGED <<csv, doc, rules, table, ri, pos, out, exc, hist, last, evals,
                   call>>

CallActionUpdate ==
    /\ pc = "call"
    /\ call.fn = "action_update"
    /\ ret' = <<action_update(call.df, call.action, call.properties)>>
    /\ pc' = "returned"
    /\ UNCHANGED <<csv, doc, rules, table, ri, pos, out, exc, hist, last, evals,
                   call>>

CallNext ==
    \/ CallCheckRule
    \/ CallActionUpdate

SpecCalls == CallInit /\ [][CallNext]_vars

\* ------------------------------------------------------------------ claims

\* The cases of one call e of row_apply_rule, read off its arguments.
Built(e) == build_properties(e.rule.properties, e.group[1])
Matched(e) ==
    /\ Built(e).exc = "none"
    /\ check_rule(e.rule.matchers, Built(e).bag) = [exc |-> "none", val |-> TRUE]
Unmatched(e) ==
    /\ Built(e).exc = "none"
    /\ check_rule(e.rule.matchers, Built(e).bag) = [exc |-> "none", val |-> FALSE]
Chain(e) == reduce_actions(e.rule.actions, e.group, Built(e).bag, 0)

\* the rule of e is evaluated on a row it matches and an update of it
\* renders a template with a placeholder the bag does not have
TemplateFails(e) == Matched(e) /\ Chain(e).exc = "KeyError"

\* the rule of e names an extractor the registry does not have
UnknownExtractor(e) == \E n \in Range(e.rule.properties) : n \notin PARAM_NAMES

\* erste_comment is reached and the comment text is not of the grammar
GrammarFails(e) ==
    /\ e.rule.properties # <<>>
    /\ e.rule.properties[1] = ERSTE_COMMENT
    /\ e.group[1][COMMENT].t = "str"
    /\ ~comment_re_match(e.group[1][COMMENT].s).matched

\* the chain of a matching rule reaches an action type that is not registered
UnknownActionFails(e) ==
    /\ Matched(e)
    /\ \E i \in DOMAIN e.rule.actions :
          /\ e.rule.actions[i].k \notin ACTION_TYPES
          /\ reduce_actions(SubSeq(e.rule.actions, 1, i - 1), e.group,
                            Built(e).bag, 0).exc = "none"

KeepsOriginalRow(e) ==
    /\ e.res.exc = "none"
    /\ Len(e.res.df) = 1
    /\ e.res.df = e.group

\* C1: a row that matches a rule whose update renders a template with a
\* placeholder missing from the property bag keeps exactly its original
\* form as the RowSet, and the run goes on (nothing is raised).
C1_UndefinedKeyKeepsRow ==
    \A e \in Range(last) : TemplateFails(e) => KeepsOriginalRow(e)

\* C2: a rule naming an extractor that is not registered is skipped for
\* the row: the row passes through unchanged and nothing is raised.
C2_UnknownExtractorSkipsRule ==
    \A e \in Range(last) : UnknownExtractor(e) => KeepsOriginalRow(e)

MalformedActive ==
    \E i \in DOMAIN doc.rules :
        /\ ~(doc.rules[i].hasActive /\ ~doc.rules[i].active)
        /\ \E c \in DOMAIN doc.rules[i].matchers :
              ~WellFormed(doc.rules[i].matchers[c])

\* C3: with an active rule that has a condition of zero or several pairs
\* the run never ends normally, and no group has been returned by
\* row_apply_rule, under this or an earlier rule, at any time of the run.
C3_MalformedAbortsBeforeRows ==
    (doc.hasRoot /\ MalformedActive) =>
        /\ pc # "done"
        /\ out = <<>>
        /\ Len(hist) = 1

\* C4: when the extraction fails on the grammar of the comment, or the
\* action chain reaches an unregistered action type, the RowSet is exactly
\* the original row, whatever the earlier actions of the chain did.
C4_FailureKeepsOriginalRow ==
    \A e \in Range(last) :
        (GrammarFails(e) \/ UnknownActionFails(e)) => KeepsOriginalRow(e)

\* C4's case: an update ran and changed the row before the chain failed
C4_Witness ==
    \E e \in Range(last) :
        /\ UnknownActionFails(e)
        /\ e.res.applied >= 1
        /\ Chain(e).df # e.group

\* C5: when the matcher returns false the rule returns exactly the input
\* row and applies none of its actions.
C5_UnmatchedRowUntouched ==
    \A e \in Range(last) :
        Unmatched(e) => (KeepsOriginalRow(e) /\ e.res.applied = 0)

\* C5's case: an unmatched row the actions of the rule would have changed
C5_Witness ==
    \E e \in Range(last) :
        /\ Unmatched(e)
        /\ reduce_actions(e.rule.actions, e.group, Built(e).bag, 0).exc = "none"
        /\ reduce_actions(e.rule.actions, e.group, Built(e).bag, 0).df # e.group

\* the RowSet of row i of table t under a rule: the frame row_apply_rule
\* returns on it, without the marker of the lift
RowSet(t, i, rule) ==
    drop_marker(row_apply_rule_group(<<add_marker(t, rnd_outer)[i]>>, rule).df,
                rnd_outer)

RECURSIVE RowSetsFrom(_, _, _)
RowSetsFrom(t, i, rule) ==
    IF i > Len(t) THEN <<>>
    ELSE RowSet(t, i, rule) \o RowSetsFrom(t, i + 1, rule)

\* C6: the table each rule produces is the concatenation, in input row
\* order, of the RowSets of the rows of the table the rule was given.
\* (stated where a rule has just produced its table: hist ends with the
\* table the rule was given and the table it produced)
C6_OrderPreserved ==
    (pc = "apply" /\ Len(hist) >= 2) =>
        /\ table = hist[Len(hist)]
        /\ hist[Len(hist)] =
              RowSetsFrom(hist[Len(hist) - 1], 1, rules[Len(hist) - 1])

\* C6's case: a rule has produced a table of different rows, some changed
C6_Witness ==
    /\ pc = "apply"
    /\ Len(hist) >= 2
    /\ Len(hist[2]) >= 2
    /\ hist[2] # hist[1]
    /\ hist[2][1] # hist[2][2]
    /\ hist[1][1] # hist[1][2]

Inactive(r) == r.hasActive /\ ~r.active

\* C7: a rule with active: false is never evaluated on any row (so its
\* malformed condition raises nothing) and is no rule of the fold; a rule
\* without the active key is one.
C7_InactiveRuleSkipped ==
    /\ \A e \in Range(last) : ~Inactive(e.rule)
    /\ (doc.hasRoot /\ pc # "load") =>
          /\ \A r \in Range(rules) : ~Inactive(r)
          /\ \A r \in Range(doc.rules) : ~r.hasActive => r \in Range(rules)
          /\ Len(rules) = Cardinality({i \in DOMAIN doc.rules :
                                          ~Inactive(doc.rules[i])})

\* C7's case: a run ends normally with an inactive rule of a malformed
\* condition in the document and a rule without the key evaluated
C7_Witness ==
    /\ pc = "done"
    /\ exc = "none"
    /\ \E r \in Range(doc.rules) :
          Inactive(r) /\ \E c \in DOMAIN r.matchers : ~WellFormed(r.matchers[c])
    /\ \E e \in Range(last) : ~e.rule.hasActive

\* C8: an update adds no column: where it returns, the rows have the
\* columns they had and only columns the mapping names have changed; where
\* it raises, a column the row has was being rendered, never an absent one.
C8_UpdateAddsNoColumn ==
    \A r \in Range(ret) :
        call.fn = "action_update" =>
            /\ r.exc = "none" =>
                  /\ Len(r.df) = Len(call.df)
                  /\ \A i \in DOMAIN r.df :
                        /\ DOMAIN r.df[i] = DOMAIN call.df[i]
                        /\ \A c \in DOMAIN r.df[i] :
                              r.df[i][c] # call.df[i][c] =>
                                  \E p \in Range(call.action) : p.k = c
            /\ r.exc # "none" =>
                  \E p \in Range(call.action) :
                      /\ \E i \in DOMAIN call.df : p.k \in DOMAIN call.df[i]
                      /\ \E t \in Range(p.v) :
                            t.ref /\ t.key \notin DOMAIN call.properties

\* C8's case: an update that names an absent column with a template that
\* cannot be rendered returns, having changed another column
C8_Witness ==
    \E r \in Range(ret) :
        /\ call.fn = "action_update"
        /\ r.exc = "none"
        /\ r.df # call.df
        /\ \E p \in Range(call.action) :
              /\ \A i \in DOMAIN call.df : p.k \notin DOMAIN call.df[i]
              /\ \E t \in Range(p.v) : t.ref /\ t.key \notin DOMAIN call.properties

\* the rule index and the group key of the last call of row_apply_rule
LastEval == evals[Len(evals)]

\* C9: the rules run in their order and each is given the table the rule
\* before it produced: the frame a rule is lifted over is that table, every
\* group it is evaluated on is a row of that table, and a rule is evaluated
\* only after the rule before it was evaluated on every row of its table.
C9_RulesFoldInOrder ==
    /\ pc = "groups" =>
          /\ Len(hist) = ri
          /\ drop_marker(table, rnd_outer) = hist[ri]
    /\ Len(last) = 1 =>
          /\ LastEval[1] <= Len(hist)
          /\ last[1].rule = rules[LastEval[1]]
          /\ last[1].group = <<add_marker(hist[LastEval[1]], rnd_outer)[LastEval[2]]>>
    /\ \A i \in DOMAIN evals :
          /\ i > 1 =>
                \/ /\ evals[i][1] = evals[i - 1][1]
                   /\ evals[i][2] = evals[i - 1][2] + 1
                \/ /\ evals[i][1] = evals[i - 1][1] + 1
                   /\ evals[i][2] = 1
          /\ evals[i][1] > 1 =>
                \A k \in 1..Len(hist[evals[i][1] - 1]) :
                    \E j \in 1..(i - 1) : evals[j] = <<evals[i][1] - 1, k>>

\* C9's case: the second rule transforms a row it would not match as the
\* file gave it, on the value the first rule wrote
C9_Witness ==
    /\ Len(last) = 1
    /\ LastEval[1] = 2
    /\ last[1].res.step = "transformed"
    /\ Len(csv) >= LastEval[2]
    /\ check_rule(last[1].rule.matchers,
                  add_marker(csv, rnd_outer)[LastEval[2]]) = [exc |-> "none", val |-> FALSE]

\* a well-formed condition holds: the property is there, is text, and the
\* pattern matches a prefix of it
Holds(matcher, bag) ==
    /\ matcher[1].k \in DOMAIN bag
    /\ bag[matcher[1].k].t = "str"
    /\ \E n \in 0..Len(bag[matcher[1].k].s) :
          /\ SubSeq(bag[matcher[1].k].s, 1, n) = matcher[1].v.lit
          /\ matcher[1].v.full => n = Len(bag[matcher[1].k].s)

\* C10: on well-formed conditions check_rule is true exactly when every
\* condition holds; a condition on an absent property does not hold and
\* raises nothing; the empty list matches.
C10_CheckRuleIsConjunction ==
    \A r \in Range(ret) :
        (call.fn = "check_rule" /\ \A c \in Range(call.matchers) : WellFormed(c)) =>
            /\ (r.exc = "none" /\ r.val) <=>
                  \A c \in Range(call.matchers) : Holds(c, call.properties)
            /\ r.exc # "none" =>
                  \E c \in Range(call.matchers) :
                      /\ c[1].k \in DOMAIN call.properties
                      /\ call.properties[c[1].k].t # "str"
            /\ call.matchers = <<>> => (r.exc = "none" /\ r.val)

\* C10's case: a condition that holds before one on an absent property
C10_Witness ==
    \E r \in Range(ret) :
        /\ call.fn = "check_rule"
        /\ Len(call.matchers) = 2
        /\ WellFormed(call.matchers[1]) /\ WellFormed(call.matchers[2])
        /\ Holds(call.matchers[1], call.properties)
        /\ call.matchers[2][1].k \notin DOMAIN call.properties
        /\ r = [exc |-> "none", val |-> FALSE]

====
